---- MODULE Spec2Model ----
(***************************************************************************)
(* Geometry of the ad-size tiler in src/ad_generation/generate_with_ai.py: *)
(* crop_and_resize_to_ad_size (static centre crop and resize) and          *)
(* create_panning_gif (panning animation), as main() calls them for one    *)
(* ad size: first the static image, then the animated GIF.                 *)
(*                                                                         *)
(* Python computes the aspect ratios in binary64 floating point and        *)
(* truncates with int().  The float values are kept exactly here: a float  *)
(* obtained as a/b is the record [num, den, exp, err] that stands for the  *)
(* real number  num/den - err/(den * 2^(52-exp)),  the nearest double to   *)
(* num/den.  All integers stay far below 2^31.                             *)
(***************************************************************************)
EXTENDS Integers, Sequences, FiniteSets, TLC

\* ------------------------------------------------------------------ bounds
MaxDim == 9        \* largest width/height of the bounded sources and targets
MaxFrames == 3     \* largest num_frames of the bounded calls

\* ------------------------------------------------------- program constants
GIF_NUM_FRAMES == 40
GIF_FRAME_DURATION == 300
MASTER_SIZE == 1024

\* AD_SIZES, desktop then mobile, in dictionary order
AD_SIZES ==
  << <<304, 248>>, <<728, 88>>, <<160, 600>>, <<304, 600>>, <<336, 280>>,
     <<968, 248>>, <<968, 88>>, <<248, 248>>,
     <<320, 48>>, <<320, 104>>, <<200, 200>>, <<320, 480>>, <<480, 320>> >>

\* ------------------------------------------------ binary64 float arithmetic
RECURSIVE Pow2(_)
Pow2(n) == IF n <= 0 THEN 1 ELSE 2 * Pow2(n - 1)

RECURSIVE Pow2Mod(_, _)
\* 2^k mod b
Pow2Mod(k, b) == IF k <= 0 THEN 1 % b ELSE (2 * Pow2Mod(k - 1, b)) % b

RECURSIVE FloorLog2(_)
\* largest m with 2^m <= n, for n >= 1
FloorLog2(n) == IF n < 2 THEN 0 ELSE 1 + FloorLog2(n \div 2)

RECURSIVE CeilLog2Q(_, _)
\* least j with a * 2^j >= b, for a >= 1
CeilLog2Q(a, b) == IF a >= b THEN 0 ELSE 1 + CeilLog2Q(2 * a, b)

\* binary exponent of the positive rational a/b: largest e with 2^e <= a/b
Exponent(a, b) == IF a >= b THEN FloorLog2(a \div b) ELSE 0 - CeilLog2Q(a, b)

\* Python's a / b on ints (a >= 0, b >= 1): the double nearest to a/b.
\* With k = 52 - exp the 53-bit significand is a*2^k / b rounded to nearest;
\* r is the remainder of that division, so the double lies err/(b*2^k) below
\* a/b (above when err < 0).  A tie (2r = b) needs a 54-bit dyadic a/b and
\* cannot happen for a below 2^31.
TrueDiv(a, b) ==
  IF a = 0 THEN [num |-> 0, den |-> b, exp |-> 0, err |-> 0]
  ELSE LET e == Exponent(a, b)
           r == (a * Pow2Mod(52 - e, b)) % b
       IN [num |-> a, den |-> b, exp |-> e,
           err |-> IF 2 * r < b THEN r ELSE r - b]

\* x > y on doubles.  Two distinct ratios of integers below 2^26 are more
\* than one unit in the last place apart, so their doubles compare as the
\* ratios do.
FloatGT(x, y) == x.num * y.den > y.num * x.den

FloatLT(x, y) == x.num * y.den < y.num * x.den

\* x > y * 2^t for integers x, y and an integer exponent t of either sign
GtScaled(x, t, y) == IF t >= 0 THEN x > y * Pow2(t) ELSE x * Pow2(0 - t) > y

\* exponent of half the gap between the integer n >= 1 and the double just
\* below it, relative to 2^(exp - 52) of the aspect ratio
HalfGapExp(n, e) ==
  LET m == FloorLog2(n)
  IN m - e - 1 - (IF Pow2(m) = n THEN 1 ELSE 0)

\* int(h * x) for an int h >= 1 and a double x = TrueDiv(a, b): the exact
\* product is rounded to a double, then truncated.  Off an integer the
\* product is at least 1/b away from it and truncates to the floor; on an
\* integer n the product is n - h*err/(b*2^k), which rounds to a double below
\* n exactly when that error exceeds half the gap below n.
IntMul(h, x) ==
  LET n == (h * x.num) \div x.den
      s == (h * x.num) % x.den
  IN IF s # 0 \/ x.err <= 0 THEN n
     ELSE IF GtScaled(h * x.err, HalfGapExp(n, x.exp), x.den) THEN n - 1 ELSE n

\* variant: the quotient rounded up instead of truncated
IntDivRoundUp(w, x) ==
  LET n == (w * x.den) \div x.num
      s == (w * x.den) % x.num
  IN IF s # 0 THEN n + 1 ELSE n

\* int(w / x) for an int w >= 1 and a double x = TrueDiv(a, b) > 0
IntDiv(w, x) ==
  LET n == (w * x.den) \div x.num
      s == (w * x.den) % x.num
  IN IF s # 0 \/ x.err >= 0 THEN n
     ELSE IF GtScaled(n * (0 - x.err), HalfGapExp(n, x.exp), x.num) THEN n - 1 ELSE n

\* int(x) of a double x = TrueDiv(p, d): the nearest double to p/d never
\* crosses an integer, so it truncates to the floor of p/d
IntOf(x) == x.num \div x.den

\* ------------------------------------------------------------------- images
\* A PIL image is its size and, for the model, the box of the master image it
\* shows.  image.crop(box) has the size of the box; image.resize(size) has
\* exactly the requested size.
Image(w, h) == [size |-> <<w, h>>, box |-> <<0, 0, w, h>>]

Crop(image, box) == [size |-> <<box[3] - box[1], box[4] - box[2]>>, box |-> box]

Resize(image, size) == [size |-> size, box |-> image.box]

NoImage == [size |-> <<0, 0>>, box |-> <<0, 0, 0, 0>>]

\* -------------------------------------------------------------------- state
VARIABLES
  image,          \* master image (main: master_image)
  target_width,   \* ad size of this call
  target_height,
  num_frames,     \* num_frames argument of create_panning_gif
  pc,             \* position in main / create_panning_gif
  ad_image,       \* result of crop_and_resize_to_ad_size in main
  crop_width,     \* locals of create_panning_gif (0 before assignment)
  crop_height,
  max_top,
  max_left,
  i,              \* loop variable of the frame loops
  frames,         \* list of frames built by create_panning_gif
  gif,            \* what was written to output_path, <<>> when nothing was
  log             \* main: the calls finished so far on this master image

\* quick_filter.py: ImageFilterApp, its files and its runs
VARIABLES
  base_images,    \* paths of the image files under BASE_DIR
  broken,         \* those of them Image.open fails on
  locked,         \* those of them os.remove fails on
  json_file,      \* content of checked_images.json
  checked_images, \* self.checked_images
  image_paths,    \* self.image_paths
  current_index,  \* self.current_index
  shown,          \* path of the image in image_label, 0 when none
  app,            \* "off", "mainloop" or "exited" (after root.quit())
  run,            \* runs of the program started so far
  written,        \* every path a successful save has put into the file
  earlier,        \* `written` as it was when this run started
  last_key,       \* what the last handler did
  last_save       \* how the latest save_checked_images went, "none" before

filterVars == <<base_images, broken, locked, json_file, checked_images,
                image_paths, current_index, shown, app, run, written,
                earlier, last_key, last_save>>

\* quick_text_overlay.py: TextOverlayApp and its folders
VARIABLES
  overlay_paths,          \* self.image_paths
  overlay_index,          \* self.current_index
  current_original_path,  \* self.current_original_path
  image_size,             \* width and height of the images under BASE_DIR
  window,                 \* width and height of the canvas widget now
  canvas_size,            \* self.canvas_width, self.canvas_height
  image_scale,            \* self.image_scale
  image_offset,           \* canvas coordinates of the item tagged "image"
  text_items,             \* self.text_items
  selected_text,          \* index of self.selected_text, 0 when None
  output_files,           \* the files in OUTPUT_DIR
  json_store,             \* the files in JSON_DIR
  clock                   \* time, for st_mtime

overlayVars == <<overlay_paths, overlay_index, current_original_path,
                 image_size, window, canvas_size, image_scale, image_offset,
                 text_items, selected_text, output_files, json_store, clock>>

\* the state outside one call of the tiler
otherVars == <<log, filterVars, overlayVars>>

tilerVars == <<image, target_width, target_height, num_frames, pc, ad_image,
               crop_width, crop_height, max_top, max_left, i, frames, gif, log>>

vars == <<image, target_width, target_height, num_frames, pc, ad_image,
          crop_width, crop_height, max_top, max_left, i, frames, gif,
          otherVars>>

img_width == image.size[1]

img_height == image.size[2]

target_aspect == TrueDiv(target_width, target_height)

\* quick_filter.py not running
FilterIdle ==
  /\ base_images = {}
  /\ broken = {}
  /\ locked = {}
  /\ json_file = [kind |-> "absent", items |-> {}]
  /\ checked_images = {}
  /\ image_paths = <<>>
  /\ current_index = 0
  /\ shown = 0
  /\ app = "off"
  /\ run = 0
  /\ written = {}
  /\ earlier = {}
  /\ last_key = "none"
  /\ last_save = "none"

NoPath == [base |-> <<>>, ext |-> ""]

\* quick_text_overlay.py not running
OverlayIdle ==
  /\ overlay_paths = <<>>
  /\ overlay_index = 0
  /\ current_original_path = NoPath
  /\ image_size = <<0, 0>>
  /\ window = <<0, 0>>
  /\ canvas_size = <<0, 0>>
  /\ image_scale = TrueDiv(1, 1)
  /\ image_offset = <<0, 0>>
  /\ text_items = <<>>
  /\ selected_text = 0
  /\ output_files = {}
  /\ json_store = {}
  /\ clock = 0

\* generate_with_ai.py not running
TilerIdle ==
  /\ image = NoImage
  /\ target_width = 0
  /\ target_height = 0
  /\ num_frames = 0
  /\ pc = "idle"
  /\ ad_image = NoImage
  /\ crop_width = 0
  /\ crop_height = 0
  /\ max_top = 0
  /\ max_left = 0
  /\ i = 0
  /\ frames = <<>>
  /\ gif = <<>>
  /\ log = <<>>

\* -------------------------------------------- crop_and_resize_to_ad_size
\* variant: the cropped width taken from the image width, not its height
CenterCropByWidth(img, tw, th) ==
  LET w == img.size[1]
      h == img.size[2]
      ta == TrueDiv(tw, th)
      ca == TrueDiv(w, h)
  IN IF FloatGT(ca, ta)
       THEN LET new_width == IntMul(w, ta)
                left == (w - new_width) \div 2
            IN Crop(img, <<left, 0, left + new_width, h>>)
     ELSE IF FloatLT(ca, ta)
       THEN LET new_height == IntDiv(w, ta)
                top == (h - new_height) \div 2
            IN Crop(img, <<0, top, w, top + new_height>>)
     ELSE img

\* the image cropped to the target aspect ratio (centre crop)
CenterCrop(img, tw, th) ==
  LET w == img.size[1]
      h == img.size[2]
      ta == TrueDiv(tw, th)
      ca == TrueDiv(w, h)
  IN IF FloatGT(ca, ta)
       THEN LET new_width == IntMul(h, ta)
                left == (w - new_width) \div 2
            IN Crop(img, <<left, 0, left + new_width, h>>)
     ELSE IF FloatLT(ca, ta)
       THEN LET new_height == IntDiv(w, ta)
                top == (h - new_height) \div 2
            IN Crop(img, <<0, top, w, top + new_height>>)
     ELSE img

\* variant: the centre crop returned without the final resize
CropWithoutResize(img, tw, th) == CenterCrop(img, tw, th)

crop_and_resize_to_ad_size(img, tw, th) == Resize(CenterCrop(img, tw, th), <<tw, th>>)

\* variant: the static image takes the place of the master image
StaticImageInPlace ==
  /\ pc = "static"
  /\ ad_image' = crop_and_resize_to_ad_size(image, target_width, target_height)
  /\ image' = ad_image'
  /\ pc' = "pan"
  /\ UNCHANGED <<target_width, target_height, num_frames, crop_width,
                 crop_height, max_top, max_left, i, frames, gif>>
  /\ UNCHANGED otherVars

\* main: the static image of this ad size
StaticImage ==
  /\ pc = "static"
  /\ ad_image' = crop_and_resize_to_ad_size(image, target_width, target_height)
  /\ pc' = "pan"
  /\ UNCHANGED <<image, target_width, target_height, num_frames, crop_width,
                 crop_height, max_top, max_left, i, frames, gif>>
  /\ UNCHANGED otherVars

\* --------------------------------------------------- create_panning_gif
\* variant: a pan range of 0 also enters the frame loop (`>= 0` for `> 0`)
AfterWindowFromZero(max_offset, loop) ==
  IF max_offset >= 0 THEN (IF num_frames > 0 THEN loop ELSE "save") ELSE "center"

\* where the frame loop goes after the pan range is known
AfterWindow(max_offset, loop) ==
  IF max_offset > 0 THEN (IF num_frames > 0 THEN loop ELSE "save") ELSE "center"

\* variant: square ads pan top to bottom too (`>=` for `>`)
PanTopToBottomOnTie == target_width >= target_height

\* `if target_width > target_height`: landscape ads pan top to bottom, the
\* others (portrait or square) pan left to right
PanTopToBottom == target_width > target_height

\* variant: the window height taken as width times aspect ratio
LandscapeHeightTimesAspect == IntMul(img_width, target_aspect)

\* landscape ad: crop window and pan range, top to bottom
LandscapeHeight == IntDiv(img_width, target_aspect)

\* variant: the window is not shrunk when it is higher than the image
WindowLandscapeUnshrunk ==
  /\ pc = "pan"
  /\ PanTopToBottom
  /\ crop_height' = LandscapeHeight
  /\ crop_width' = img_width
  /\ max_top' = img_height - crop_height'
  /\ pc' = AfterWindow(max_top', "loop_top")
  /\ frames' = <<>>
  /\ UNCHANGED <<image, target_width, target_height, num_frames, ad_image,
                 max_left, i, gif>>
  /\ UNCHANGED otherVars

WindowLandscape ==
  /\ pc = "pan"
  /\ PanTopToBottom
  /\ IF LandscapeHeight > img_height
       THEN /\ crop_height' = img_height
            /\ crop_width' = IntMul(img_height, target_aspect)
       ELSE /\ crop_height' = LandscapeHeight
            /\ crop_width' = img_width
  /\ max_top' = img_height - crop_height'
  /\ pc' = AfterWindow(max_top', "loop_top")
  /\ frames' = <<>>
  /\ UNCHANGED <<image, target_width, target_height, num_frames, ad_image,
                 max_left, i, gif>>
  /\ UNCHANGED otherVars

\* portrait or square ad: crop window and pan range, left to right
PortraitWidth == IntMul(img_height, target_aspect)

WindowPortrait ==
  /\ pc = "pan"
  /\ ~PanTopToBottom
  /\ IF PortraitWidth > img_width
       THEN /\ crop_width' = img_width
            /\ crop_height' = IntDiv(img_width, target_aspect)
       ELSE /\ crop_width' = PortraitWidth
            /\ crop_height' = img_height
  /\ max_left' = img_width - crop_width'
  /\ pc' = AfterWindow(max_left', "loop_left")
  /\ frames' = <<>>
  /\ UNCHANGED <<image, target_width, target_height, num_frames, ad_image,
                 max_top, i, gif>>
  /\ UNCHANGED otherVars

\* variant: frames counted from 1, so the last offset overshoots
PanOffsetFromOne(max_offset, k) ==
  IF num_frames > 1 THEN IntOf(TrueDiv(max_offset * (k + 1), num_frames - 1)) ELSE 0

\* variant: the range divided by num_frames, so the last offset falls short
PanOffsetOverCount(max_offset, k) ==
  IF num_frames > 1 THEN IntOf(TrueDiv(max_offset * k, num_frames)) ELSE 0

\* variant: the window runs backwards, from max_offset to 0
PanOffsetReversed(max_offset, k) ==
  IF num_frames > 1
    THEN max_offset - IntOf(TrueDiv(max_offset * k, num_frames - 1))
    ELSE 0

\* variant: the offset rounded to the nearest pixel, not truncated
PanOffsetRounded(max_offset, k) ==
  IF num_frames > 1
    THEN (2 * max_offset * k + (num_frames - 1)) \div (2 * (num_frames - 1))
    ELSE 0

\* pan offset of frame k: int((max_offset * k) / (num_frames - 1)), or 0
PanOffset(max_offset, k) ==
  IF num_frames > 1 THEN IntOf(TrueDiv(max_offset * k, num_frames - 1)) ELSE 0

\* the frame cut at (left, top) with the crop window, resized to the ad size
PanFrame(left, top) ==
  Resize(Crop(image, <<left, top, left + crop_width, top + crop_height>>),
         <<target_width, target_height>>)

\* variant: a frame equal to the previous one is dropped
FrameTopDeduplicated ==
  /\ pc = "loop_top"
  /\ i < num_frames
  /\ LET top == IF num_frames > 1
                  THEN IntOf(TrueDiv(max_top * i, num_frames - 1)) ELSE 0
         left == (img_width - crop_width) \div 2
         frame == Resize(Crop(image, <<left, top, left + crop_width,
                                       top + crop_height>>),
                         <<target_width, target_height>>)
     IN frames' = IF frames # <<>> /\ frames[Len(frames)] = frame
                    THEN frames ELSE Append(frames, frame)
  /\ i' = i + 1
  /\ pc' = IF i' < num_frames THEN "loop_top" ELSE "save"
  /\ UNCHANGED <<image, target_width, target_height, num_frames, ad_image,
                 crop_width, crop_height, max_top, max_left, gif>>
  /\ UNCHANGED otherVars

\* one iteration of `for i in range(num_frames)`, window moving down
FrameTop ==
  /\ pc = "loop_top"
  /\ i < num_frames
  /\ LET top == PanOffset(max_top, i)
         left == (img_width - crop_width) \div 2
     IN frames' = Append(frames, PanFrame(left, top))
  /\ i' = i + 1
  /\ pc' = IF i' < num_frames THEN "loop_top" ELSE "save"
  /\ UNCHANGED <<image, target_width, target_height, num_frames, ad_image,
                 crop_width, crop_height, max_top, max_left, gif>>
  /\ UNCHANGED otherVars

\* one iteration of `for i in range(num_frames)`, window moving right
FrameLeft ==
  /\ pc = "loop_left"
  /\ i < num_frames
  /\ LET left == PanOffset(max_left, i)
         top == (img_height - crop_height) \div 2
     IN frames' = Append(frames, PanFrame(left, top))
  /\ i' = i + 1
  /\ pc' = IF i' < num_frames THEN "loop_left" ELSE "save"
  /\ UNCHANGED <<image, target_width, target_height, num_frames, ad_image,
                 crop_width, crop_height, max_top, max_left, gif>>
  /\ UNCHANGED otherVars

\* can't pan: the single centre-cropped frame (either branch)
CenterFrame ==
  /\ pc = "center"
  /\ frames' = Append(frames,
                 crop_and_resize_to_ad_size(image, target_width, target_height))
  /\ pc' = "save"
  /\ UNCHANGED <<image, target_width, target_height, num_frames, ad_image,
                 crop_width, crop_height, max_top, max_left, i, gif>>
  /\ UNCHANGED otherVars

\* variant: only the first frame is written (append_images left out)
SaveGifFirstFrameOnly ==
  /\ pc = "save"
  /\ gif' = IF frames # <<>>
              THEN <<[first |-> Head(frames), append_images |-> <<>>,
                      duration |-> GIF_FRAME_DURATION, loop |-> 0]>>
              ELSE gif
  /\ pc' = "done"
  /\ UNCHANGED <<image, target_width, target_height, num_frames, ad_image,
                 crop_width, crop_height, max_top, max_left, i, frames>>
  /\ UNCHANGED otherVars

\* `if frames: frames[0].save(output_path, save_all=True, ...)`
SaveGif ==
  /\ pc = "save"
  /\ gif' = IF frames # <<>>
              THEN <<[first |-> Head(frames), append_images |-> Tail(frames),
                      duration |-> GIF_FRAME_DURATION, loop |-> 0]>>
              ELSE gif
  /\ pc' = "done"
  /\ UNCHANGED <<image, target_width, target_height, num_frames, ad_image,
                 crop_width, crop_height, max_top, max_left, i, frames>>
  /\ UNCHANGED otherVars

\* ------------------------------------------------------------ specification
Dims == 1 .. MaxDim

FrameCounts == 0 .. MaxFrames

AdSizes == {AD_SIZES[k] : k \in 1 .. Len(AD_SIZES)}

\* the calls: any small source, ad size and frame count, and the calls main
\* makes on the 1024 x 1024 master image
Calls ==
  {<<w, h, tw, th, n>> : w \in Dims, h \in Dims, tw \in Dims, th \in Dims,
                         n \in FrameCounts}
  \cup {<<MASTER_SIZE, MASTER_SIZE, s[1], s[2], GIF_NUM_FRAMES>> : s \in AdSizes}

Init ==
  /\ \E c \in Calls :
       /\ image = Image(c[1], c[2])
       /\ target_width = c[3]
       /\ target_height = c[4]
       /\ num_frames = c[5]
  /\ pc = "static"
  /\ ad_image = NoImage
  /\ crop_width = 0
  /\ crop_height = 0
  /\ max_top = 0
  /\ max_left = 0
  /\ i = 0
  /\ frames = <<>>
  /\ gif = <<>>
  /\ log = <<>>
  /\ FilterIdle
  /\ OverlayIdle

Next ==
  \/ StaticImage
  \/ WindowLandscape
  \/ WindowPortrait
  \/ FrameTop
  \/ FrameLeft
  \/ CenterFrame
  \/ SaveGif

Spec == Init /\ [][Next]_vars

\* ------------------------------------- main: one master, several ad sizes
MaxLoopDim == 2    \* largest width/height in the runs over several ad sizes
MaxCalls == 2      \* ad sizes cut from one master image in such a run

LoopDims == 1 .. MaxLoopDim

\* the record main leaves of a finished ad size
Finished ==
  [source |-> image, target |-> <<target_width, target_height>>,
   count |-> num_frames, static |-> ad_image, pan |-> frames, written |-> gif]

\* `for ad_name, (width, height) in sizes.items()`: the next ad size, cut
\* from the same master_image by fresh calls with their own output path
NextAdSize ==
  /\ pc = "done"
  /\ Len(log) < MaxCalls - 1
  /\ log' = Append(log, Finished)
  /\ \E tw \in LoopDims, th \in LoopDims, n \in {1, 2} :
       /\ target_width' = tw
       /\ target_height' = th
       /\ num_frames' = n
  /\ pc' = "static"
  /\ crop_width' = 0
  /\ crop_height' = 0
  /\ max_top' = 0
  /\ max_left' = 0
  /\ i' = 0
  /\ frames' = <<>>
  /\ gif' = <<>>
  /\ UNCHANGED <<image, ad_image, filterVars, overlayVars>>

InitLoop ==
  /\ \E w \in LoopDims, h \in LoopDims : image = Image(w, h)
  /\ target_width \in LoopDims
  /\ target_height \in LoopDims
  /\ num_frames \in {1, 2}
  /\ pc = "static"
  /\ ad_image = NoImage
  /\ crop_width = 0
  /\ crop_height = 0
  /\ max_top = 0
  /\ max_left = 0
  /\ i = 0
  /\ frames = <<>>
  /\ gif = <<>>
  /\ log = <<>>
  /\ FilterIdle
  /\ OverlayIdle

NextLoop ==
  \/ StaticImage
  \/ WindowLandscape
  \/ WindowPortrait
  \/ FrameTop
  \/ FrameLeft
  \/ CenterFrame
  \/ SaveGif
  \/ NextAdSize

SpecLoop == InitLoop /\ [][NextLoop]_vars

\* ------------------------------------------- calls with malformed arguments
\* Neither function checks its arguments.  Python raises ZeroDivisionError
\* on the aspect ratios and PIL's resize raises ValueError for a size
\* below 1; the exception ends the call, pc holds its name.
MaxBad == 2        \* largest width/height in the calls with a bad argument

BadDims == 0 .. MaxBad

\* a target with a zero side, or the empty source
BadCalls ==
  {c \in BadDims \X BadDims \X BadDims \X BadDims :
     \/ (c[1] >= 1 /\ c[2] >= 1 /\ (c[3] = 0 \/ c[4] = 0))
     \/ (c[1] = 0 /\ c[2] = 0)}

\* crop_and_resize_to_ad_size: target_width / target_height and
\* img_width / img_height raise on a zero divisor; the crop box is computed
\* before resize rejects the size
StaticRaises ==
  /\ pc = "static"
  /\ pc' = IF target_height = 0 \/ img_height = 0
             THEN "ZeroDivisionError"
           ELSE IF target_width < 1 THEN "ValueError"
           ELSE "pan"
  /\ ad_image' = IF pc' = "pan"
                   THEN crop_and_resize_to_ad_size(image, target_width, target_height)
                   ELSE ad_image
  /\ UNCHANGED <<image, target_width, target_height, num_frames, crop_width,
                 crop_height, max_top, max_left, i, frames, gif>>
  /\ UNCHANGED otherVars

\* create_panning_gif: target_aspect raises on target_height = 0
PanRaises ==
  /\ pc = "pan"
  /\ target_height = 0
  /\ pc' = "ZeroDivisionError"
  /\ UNCHANGED <<image, target_width, target_height, num_frames, ad_image,
                 crop_width, crop_height, max_top, max_left, i, frames, gif>>
  /\ UNCHANGED otherVars

\* the first iteration of the left-to-right loop: the window is cropped, then
\* resize rejects a target size below 1
FrameLeftRaises ==
  /\ pc = "loop_left"
  /\ i < num_frames
  /\ target_width < 1 \/ target_height < 1
  /\ pc' = "ValueError"
  /\ UNCHANGED <<image, target_width, target_height, num_frames, ad_image,
                 crop_width, crop_height, max_top, max_left, i, frames, gif>>
  /\ UNCHANGED otherVars

\* can't pan: the call of crop_and_resize_to_ad_size raises on an empty source
CenterRaises ==
  /\ pc = "center"
  /\ target_height = 0 \/ img_height = 0
  /\ pc' = "ZeroDivisionError"
  /\ UNCHANGED <<image, target_width, target_height, num_frames, ad_image,
                 crop_width, crop_height, max_top, max_left, i, frames, gif>>
  /\ UNCHANGED otherVars

\* a direct call of either function with a malformed argument
InitUnchecked ==
  /\ \E c \in BadCalls :
       /\ image = Image(c[1], c[2])
       /\ target_width = c[3]
       /\ target_height = c[4]
  /\ num_frames \in FrameCounts
  /\ pc \in {"static", "pan"}
  /\ ad_image = NoImage
  /\ crop_width = 0
  /\ crop_height = 0
  /\ max_top = 0
  /\ max_left = 0
  /\ i = 0
  /\ frames = <<>>
  /\ gif = <<>>
  /\ log = <<>>
  /\ FilterIdle
  /\ OverlayIdle

NextUnchecked ==
  \/ StaticRaises
  \/ PanRaises
  \/ target_height # 0 /\ WindowLandscape
  \/ target_height # 0 /\ WindowPortrait
  \/ FrameLeftRaises
  \/ CenterRaises
  \/ SaveGif

SpecUnchecked == InitUnchecked /\ [][NextUnchecked]_vars

\* ------------------------------------------- quick_filter.py: the filter
\* Image paths are the numbers 1 .. MaxImages, so that the order of sorted()
\* is the order of the numbers.

MaxImages == 3
MaxRuns == 2

Paths == 1 .. MaxImages

RECURSIVE sorted(_)
sorted(S) ==
  IF S = {} THEN <<>>
  ELSE LET m == CHOOSE x \in S : \A y \in S : x <= y
       IN <<m>> \o sorted(S \ {m})

\* a missing or unreadable file gives the empty set
load_checked_images ==
  IF json_file.kind = "list" THEN json_file.items ELSE {}

GetAllImagePaths(checked) == sorted(base_images)

get_image_paths(checked) ==
  sorted({img \in base_images : img \notin checked})

\* show_current_image at index idx: an image that fails to load is marked
\* checked, saved and passed (mark_checked_and_next), and the next one is
\* shown; past the last image the "Complete" dialog comes and root.quit().
\* `saves` lists the checked sets handed to save_checked_images so far.
\* variant: an image that fails to load is passed without being marked
RECURSIVE ShowWithoutMarking(_, _, _, _)
ShowWithoutMarking(paths, idx, chk, saves) ==
  IF idx >= Len(paths)
  THEN [index |-> idx, checked |-> chk, saves |-> saves,
        label |-> shown, quit |-> TRUE]
  ELSE IF paths[idx + 1] \in broken
  THEN ShowWithoutMarking(paths, idx + 1, chk, saves)
  ELSE [index |-> idx, checked |-> chk, saves |-> saves,
        label |-> paths[idx + 1], quit |-> FALSE]

RECURSIVE show_current_image(_, _, _, _)
show_current_image(paths, idx, chk, saves) ==
  IF idx >= Len(paths)
  THEN [index |-> idx, checked |-> chk, saves |-> saves,
        label |-> shown, quit |-> TRUE]
  ELSE IF paths[idx + 1] \in broken
  THEN show_current_image(paths, idx + 1, chk \cup {paths[idx + 1]},
                          Append(saves, chk \cup {paths[idx + 1]}))
  ELSE [index |-> idx, checked |-> chk, saves |-> saves,
        label |-> paths[idx + 1], quit |-> FALSE]

\* save_checked_images over the saves of one handler: open() may fail on any
\* of them, which leaves the file as it was; `last` is the last save that
\* succeeded, 0 when none did
save_checked_images(saves, last) ==
  /\ json_file' = IF last = 0 THEN json_file
                  ELSE [kind |-> "list", items |-> saves[last]]
  /\ written' = IF last = 0 THEN written ELSE written \cup saves[last]
  /\ last_save' = IF saves = <<>> THEN last_save
                  ELSE IF last = Len(saves) THEN "ok" ELSE "failed"

\* the state a handler leaves once show_current_image has returned r
Shown(r) ==
  /\ checked_images' = r.checked
  /\ current_index' = r.index
  /\ shown' = r.label
  /\ \E last \in 0 .. Len(r.saves) : save_checked_images(r.saves, last)

\* main and ImageFilterApp.__init__ up to root.mainloop(): a root.quit()
\* issued before the main loop runs does not end it
StartRun ==
  /\ app \in {"off", "exited"}
  /\ run < MaxRuns
  /\ run' = run + 1
  /\ earlier' = written
  /\ LET load == load_checked_images
         paths == get_image_paths(load)
         r == IF paths # <<>>
              THEN show_current_image(paths, 0, load, <<>>)
              ELSE [index |-> 0, checked |-> load, saves |-> <<>>,
                    label |-> shown, quit |-> TRUE]
     IN /\ image_paths' = paths
        /\ Shown(r)
  /\ app' = "mainloop"
  /\ last_key' = "start"
  /\ UNCHANGED <<base_images, broken, locked>>
  /\ UNCHANGED <<tilerVars, overlayVars>>

\* variant: the image is passed without being marked checked
MarkAndNextUnmarked(image_path) ==
  LET chk == checked_images
      r == show_current_image(image_paths, current_index + 1, chk, <<chk>>)
  IN /\ Shown(r)
     /\ app' = IF r.quit THEN "exited" ELSE "mainloop"

\* the body shared by keep_and_next and, after os.remove, delete_and_next:
\* mark checked, save, move on, show
MarkAndNext(image_path) ==
  LET chk == checked_images \cup {image_path}
      r == show_current_image(image_paths, current_index + 1, chk, <<chk>>)
  IN /\ Shown(r)
     /\ app' = IF r.quit THEN "exited" ELSE "mainloop"

Ignored(key) ==
  /\ last_key' = key
  /\ UNCHANGED <<base_images, broken, locked, json_file, checked_images,
                 image_paths, current_index, shown, app, run, written,
                 earlier, last_save>>

\* Ctrl+Left
DeleteNextAndNext ==
  /\ app = "mainloop"
  /\ IF current_index >= Len(image_paths)
     THEN Ignored("delete_ignored")
     ELSE LET image_path == image_paths[current_index + 1]
          IN IF image_path \in locked
             THEN Ignored("delete_failed")
             ELSE /\ base_images' =
                       IF current_index + 1 < Len(image_paths)
                       THEN base_images \ {image_paths[current_index + 2]}
                       ELSE base_images
                  /\ MarkAndNext(image_path)
                  /\ last_key' = "delete"
                  /\ UNCHANGED <<broken, locked, image_paths, run, earlier>>
  /\ UNCHANGED <<tilerVars, overlayVars>>

DeleteMarkFirst ==
  /\ app = "mainloop"
  /\ IF current_index >= Len(image_paths)
     THEN Ignored("delete_ignored")
     ELSE LET image_path == image_paths[current_index + 1]
          IN IF image_path \in locked
             THEN /\ checked_images' = checked_images \cup {image_path}
                  /\ save_checked_images(<<checked_images'>>, 1)
                  /\ last_key' = "delete_failed"
                  /\ UNCHANGED <<base_images, broken, locked, image_paths,
                                 current_index, shown, app, run, earlier>>
             ELSE /\ base_images' = base_images \ {image_path}
                  /\ MarkAndNext(image_path)
                  /\ last_key' = "delete"
                  /\ UNCHANGED <<broken, locked, image_paths, run, earlier>>
  /\ UNCHANGED <<tilerVars, overlayVars>>

delete_and_next ==
  /\ app = "mainloop"
  /\ IF current_index >= Len(image_paths)
     THEN Ignored("delete_ignored")
     ELSE LET image_path == image_paths[current_index + 1]
          IN IF image_path \in locked
             THEN Ignored("delete_failed")
             ELSE /\ base_images' = base_images \ {image_path}
                  /\ MarkAndNext(image_path)
                  /\ last_key' = "delete"
                  /\ UNCHANGED <<broken, locked, image_paths, run, earlier>>
  /\ UNCHANGED <<tilerVars, overlayVars>>

\* Ctrl+Right
keep_and_next ==
  /\ app = "mainloop"
  /\ IF current_index >= Len(image_paths)
     THEN Ignored("keep_ignored")
     ELSE /\ MarkAndNext(image_paths[current_index + 1])
          /\ last_key' = "keep"
          /\ UNCHANGED <<base_images, broken, locked, image_paths, run,
                         earlier>>
  /\ UNCHANGED <<tilerVars, overlayVars>>

\* Escape
quit_app ==
  /\ app = "mainloop"
  /\ app' = "exited"
  /\ last_key' = "escape"
  /\ UNCHANGED <<base_images, broken, locked, json_file, checked_images,
                 image_paths, current_index, shown, run, written, earlier,
                 last_save>>
  /\ UNCHANGED <<tilerVars, overlayVars>>

JsonFiles ==
  {[kind |-> k, items |-> {}] : k \in {"absent", "garbage"}}
    \cup {[kind |-> "list", items |-> S] : S \in SUBSET Paths}

InitFilter ==
  /\ TilerIdle
  /\ OverlayIdle
  /\ base_images \in SUBSET Paths
  /\ broken \in SUBSET base_images
  /\ locked \in SUBSET base_images
  /\ json_file \in JsonFiles
  /\ checked_images = {}
  /\ image_paths = <<>>
  /\ current_index = 0
  /\ shown = 0
  /\ app = "off"
  /\ run = 0
  /\ written = load_checked_images
  /\ earlier = {}
  /\ last_key = "none"
  /\ last_save = "none"

NextFilter ==
  \/ StartRun
  \/ delete_and_next
  \/ keep_and_next
  \/ quit_app

SpecFilter == InitFilter /\ [][NextFilter]_vars

\* ------------------------------------ quick_text_overlay.py: the overlay
\* A file name is its base name, as the list of "_text" (0) and "_text_N"
\* (N >= 1) suffixes that follow the stem "photo", and its extension.

MaxTexts == 1
MaxSaves == 2

\* the names in the order sorted() gives them: "." sorts before "_"
AllNames ==
  <<[base |-> <<>>, ext |-> "jpg"], [base |-> <<>>, ext |-> "png"],
    [base |-> <<0>>, ext |-> "png"]>>

Listing(S) == LET idx == sorted(S) IN [k \in 1 .. Len(idx) |-> AllNames[idx[k]]]

ImageSizes == {<<200, 100>>}
Windows == {<<90, 80>>, <<160, 100>>}

\* the image folders tried, as positions in AllNames
Folders == {{2}, {3}, {1, 2}, {2, 3}}

Texts == {"New Text", "SALE"}

\* where a drag may drop a text
Points == {<<50, 40>>}

One == TrueDiv(1, 1)

\* min(scale_x, scale_y, 1.0)
FloatMin(x, y, z) ==
  LET m == IF FloatLT(y, x) THEN y ELSE x
  IN IF FloatLT(z, m) THEN z ELSE m

\* load_image: canvas size, scale and the place of the image on the canvas
Geometry(win, size) ==
  LET canvas == IF win[1] < 100 THEN <<1200, 700>> ELSE win
      scale == FloatMin(TrueDiv(canvas[1], size[1]),
                        TrueDiv(canvas[2], size[2]), One)
      display_width == IntMul(size[1], scale)
      display_height == IntMul(size[2], scale)
  IN [canvas |-> canvas, scale |-> scale,
      offset |-> <<(canvas[1] - display_width) \div 2,
                   (canvas[2] - display_height) \div 2>>]

\* re.sub(r'_text(_\d+)?$', '', base_name)
StripTextSuffix(base_name) ==
  IF Len(base_name) > 0 THEN SubSeq(base_name, 1, Len(base_name) - 1)
  ELSE base_name

JsonNamed(store, name) == {j \in store : j.base = name}

\* load_image: the "_text_N" JSON files, N counted up while they exist
RECURSIVE NumberedJsons(_, _, _)
NumberedJsons(store, base_name, counter) ==
  IF JsonNamed(store, Append(base_name, counter)) # {}
  THEN JsonNamed(store, Append(base_name, counter))
         \cup NumberedJsons(store, base_name, counter + 1)
  ELSE {}

\* load_image: the newest of the JSON files found, as a set of at most one
MostRecentJson(store, base_name) ==
  LET existing == JsonNamed(store, Append(base_name, 0))
                    \cup NumberedJsons(store, base_name, 1)
  IN IF existing = {} THEN {}
     ELSE {CHOOSE j \in existing : \A k \in existing : k.mtime <= j.mtime}

\* load_text_overlay_data: the items of the file, moved by the change of the
\* image's place since they were stored
RecreatedItems(data, offset) ==
  [k \in 1 .. Len(data.items) |->
     [data.items[k] EXCEPT !.x = @ + (offset[1] - data.img_offset[1]),
                           !.y = @ + (offset[2] - data.img_offset[2])]]

\* load_image at index idx, with the JSON folder holding store
load_image(idx, store) ==
  LET original_image_path == overlay_paths[idx + 1]
      g == Geometry(window, image_size)
      found == MostRecentJson(store, original_image_path.base)
  IN /\ canvas_size' = g.canvas
     /\ image_scale' = g.scale
     /\ image_offset' = g.offset
     /\ selected_text' = 0
     /\ IF found = {}
        THEN /\ text_items' = <<>>
             /\ current_original_path' = original_image_path
        ELSE LET data == CHOOSE j \in found : TRUE
             IN /\ text_items' = RecreatedItems(data, g.offset)
                /\ current_original_path' = data.original

\* every handler of the overlay leaves the other two programs alone
OverlayOnly == UNCHANGED <<tilerVars, filterVars>>

Running == overlay_paths # <<>>

\* "Add Text" button
add_text ==
  /\ Running
  /\ Len(text_items) < MaxTexts
  /\ \E text \in Texts, outline_width \in {3} :
       text_items' = Append(text_items,
         [text |-> text, x |-> canvas_size[1] \div 2,
          y |-> canvas_size[2] \div 2, font_family |-> "Arial",
          font_size |-> 36, color |-> "white",
          outline_width |-> outline_width, outline_color |-> "black"])
  /\ selected_text' = Len(text_items) + 1
  /\ UNCHANGED <<overlay_paths, overlay_index, current_original_path,
                 image_size, window, canvas_size, image_scale, image_offset,
                 output_files, json_store, clock>>
  /\ OverlayOnly

\* a key released in the text entry
update_selected_text ==
  /\ Running
  /\ selected_text # 0
  /\ \E new_text \in Texts, new_outline_width \in {3} :
       text_items' = [text_items EXCEPT ![selected_text] =
         [@ EXCEPT !.text = new_text, !.outline_width = new_outline_width]]
  /\ UNCHANGED <<overlay_paths, overlay_index, current_original_path,
                 image_size, window, canvas_size, image_scale, image_offset,
                 selected_text, output_files, json_store, clock>>
  /\ OverlayOnly

\* on_canvas_click on the text k, on_canvas_drag to the point p and
\* on_canvas_release: the text moves by the way the pointer went
on_canvas_drag ==
  /\ Running
  /\ \E k \in 1 .. Len(text_items), p \in Points :
       LET delta_x == p[1] - text_items[k].x
           delta_y == p[2] - text_items[k].y
       IN /\ text_items' = [text_items EXCEPT ![k] =
               [@ EXCEPT !.x = @ + delta_x, !.y = @ + delta_y]]
          /\ selected_text' = k
  /\ UNCHANGED <<overlay_paths, overlay_index, current_original_path,
                 image_size, window, canvas_size, image_scale, image_offset,
                 output_files, json_store, clock>>
  /\ OverlayOnly

\* Delete key
delete_selected_text ==
  /\ Running
  /\ IF selected_text = 0
     THEN UNCHANGED <<text_items, selected_text>>
     ELSE /\ text_items' = [k \in 1 .. Len(text_items) - 1 |->
               IF k < selected_text THEN text_items[k] ELSE text_items[k + 1]]
          /\ selected_text' = 0
  /\ UNCHANGED <<overlay_paths, overlay_index, current_original_path,
                 image_size, window, canvas_size, image_scale, image_offset,
                 output_files, json_store, clock>>
  /\ OverlayOnly

\* the user resizes the window; the canvas fills it, the items stay
ResizeWindow ==
  /\ Running
  /\ \E w \in Windows \ {window} : window' = w
  /\ UNCHANGED <<overlay_paths, overlay_index, current_original_path,
                 image_size, canvas_size, image_scale, image_offset,
                 text_items, selected_text, output_files, json_store, clock>>
  /\ OverlayOnly

\* Ctrl+N
next_image ==
  /\ Running
  /\ IF overlay_index < Len(overlay_paths) - 1
     THEN /\ overlay_index' = overlay_index + 1
          /\ load_image(overlay_index + 1, json_store)
     ELSE UNCHANGED <<overlay_index, current_original_path, canvas_size,
                      image_scale, image_offset, text_items, selected_text>>
  /\ UNCHANGED <<overlay_paths, image_size, window, output_files, json_store,
                 clock>>
  /\ OverlayOnly

\* Ctrl+P
prev_image ==
  /\ Running
  /\ IF overlay_index > 0
     THEN /\ overlay_index' = overlay_index - 1
          /\ load_image(overlay_index - 1, json_store)
     ELSE UNCHANGED <<overlay_index, current_original_path, canvas_size,
                      image_scale, image_offset, text_items, selected_text>>
  /\ UNCHANGED <<overlay_paths, image_size, window, output_files, json_store,
                 clock>>
  /\ OverlayOnly

AlwaysFirstName(base_name, ext, n) == n

\* save_image: the suffix of the first output name that does not exist,
\* tried in the order "_text", "_text_1", "_text_2", ...
RECURSIVE OutputSuffix(_, _, _)
OutputSuffix(base_name, ext, n) ==
  IF [base |-> Append(base_name, n), ext |-> ext] \in output_files
  THEN OutputSuffix(base_name, ext, n + 1)
  ELSE n

\* save_text_overlay_data: the file written at json_path
OverlayData(json_path) ==
  [base |-> json_path, mtime |-> clock + 1,
   original |-> current_original_path, img_offset |-> image_offset,
   items |-> text_items]

\* Ctrl+S.  Writing the image or the JSON file may raise, which ends the
\* handler in its except branch; after both are written the image is
\* loaded again.
save_image ==
  /\ Running
  /\ clock < MaxSaves
  /\ LET base_name == StripTextSuffix(current_original_path.base)
         ext == current_original_path.ext
         n == OutputSuffix(base_name, ext, 0)
         output_path == [base |-> Append(base_name, n), ext |-> ext]
         json_path == Append(base_name, n)
     IN \E outcome \in {"saved", "image_failed", "json_failed"} :
          /\ clock' = clock + 1
          /\ output_files' = IF outcome = "image_failed" THEN output_files
                             ELSE output_files \cup {output_path}
          /\ IF outcome = "saved"
             THEN /\ json_store' = (json_store \ JsonNamed(json_store, json_path))
                                     \cup {OverlayData(json_path)}
                  /\ load_image(overlay_index, json_store')
             ELSE UNCHANGED <<json_store, current_original_path, canvas_size,
                              image_scale, image_offset, text_items,
                              selected_text>>
  /\ UNCHANGED <<overlay_paths, overlay_index, image_size, window>>
  /\ OverlayOnly

\* main and TextOverlayApp.__init__: the first image is loaded, the JSON
\* folder is empty
InitOverlay ==
  /\ TilerIdle
  /\ FilterIdle
  /\ \E S \in Folders : overlay_paths = Listing(S)
  /\ overlay_index = 0
  /\ current_original_path = overlay_paths[1]
  /\ image_size \in ImageSizes
  /\ window \in Windows
  /\ canvas_size = Geometry(window, image_size).canvas
  /\ image_scale = Geometry(window, image_size).scale
  /\ image_offset = Geometry(window, image_size).offset
  /\ text_items = <<>>
  /\ selected_text = 0
  /\ output_files \in SUBSET {[base |-> <<0>>, ext |-> "png"]}
  /\ json_store = {}
  /\ clock = 0

NextOverlay ==
  \/ add_text
  \/ update_selected_text
  \/ on_canvas_drag
  \/ delete_selected_text
  \/ ResizeWindow
  \/ next_image
  \/ prev_image
  \/ save_image

SpecOverlay == InitOverlay /\ [][NextOverlay]_vars

\* ------------------------------------------------------------------- claims
\* what the claims speak about, read off the state
FrameIdx == 1 .. Len(frames)

Within(box) ==
  /\ 0 <= box[1]
  /\ 0 <= box[2]
  /\ box[3] <= img_width
  /\ box[4] <= img_height

\* a call whose pan range was positive and whose frame loop has finished
PannedDown == pc = "done" /\ target_width > target_height /\ max_top > 0

PannedRight == pc = "done" /\ ~(target_width > target_height) /\ max_left > 0

\* a call that took the can't-pan branch
CantPan ==
  /\ pc \in {"save", "done"}
  /\ IF target_width > target_height THEN max_top <= 0 ELSE max_left <= 0

\* C1: every crop window create_panning_gif cuts a frame from lies inside the
\* source image: 0 <= left, 0 <= top, left + crop_width <= W and
\* top + crop_height <= H, for every frame and on both pan branches.
C1_PanWindowInside == \A k \in FrameIdx : Within(frames[k].box)

\* a finished top-to-bottom pan whose last window touches the bottom edge
C1_Witness ==
  /\ PannedDown
  /\ Len(frames) >= 2
  /\ frames[Len(frames)].box[4] = img_height
  /\ frames[1].box[3] - frames[1].box[1] = crop_width

\* C2: the crop box of crop_and_resize_to_ad_size stays inside the source:
\* 0 <= left and left + new_width <= W when the width is cropped, 0 <= top
\* and top + new_height <= H when the height is cropped.
C2_StaticBoxInside == pc # "static" => Within(ad_image.box)

\* a static crop that cut the width with a margin on the left
C2_Witness == pc = "pan" /\ ad_image.box[1] > 0 /\ ad_image.box[3] < img_width

\* C3: the static image and every frame of the pan, multi-frame or single,
\* have exactly the size (target_width, target_height).
C3_ExactTargetSize ==
  /\ pc # "static" => ad_image.size = <<target_width, target_height>>
  /\ \A k \in FrameIdx : frames[k].size = <<target_width, target_height>>

\* a finished multi-frame pan whose crop window is not of the target size
C3_Witness ==
  /\ pc = "done"
  /\ Len(frames) >= 2
  /\ <<crop_width, crop_height>> # <<target_width, target_height>>
  /\ ad_image.box # <<0, 0, target_width, target_height>>

\* C4: with a positive pan range the first frame is cut at pan offset 0 for
\* every num_frames >= 1, and the last one at exactly max_top / max_left when
\* num_frames >= 2.
C4_FirstAndLastOffset ==
  /\ PannedDown /\ num_frames >= 1 => frames[1].box[2] = 0
  /\ PannedDown /\ num_frames >= 2 => frames[Len(frames)].box[2] = max_top
  /\ PannedRight /\ num_frames >= 1 => frames[1].box[1] = 0
  /\ PannedRight /\ num_frames >= 2 => frames[Len(frames)].box[1] = max_left

\* a finished left-to-right pan of three frames with an odd pan range
C4_Witness ==
  /\ PannedRight
  /\ num_frames = 3
  /\ max_left % 2 = 1
  /\ frames[3].box[1] = max_left

\* C5: the pan offsets never decrease in frame order: tops for a landscape
\* ad, lefts for the others.
C5_OffsetsMonotone ==
  \A a \in FrameIdx : \A b \in FrameIdx :
    a < b => IF target_width > target_height
               THEN frames[a].box[2] <= frames[b].box[2]
               ELSE frames[a].box[1] <= frames[b].box[1]

\* a finished pan of three frames with three different tops
C5_Witness ==
  /\ PannedDown
  /\ Len(frames) = 3
  /\ frames[1].box[2] < frames[2].box[2]
  /\ frames[2].box[2] < frames[3].box[2]

\* C6: when the pan range is not positive the pan has exactly one frame, for
\* any num_frames, and it is the frame of the static centre crop and resize
\* (same crop box, same size).
C6_CantPanSingleStatic ==
  CantPan => /\ Len(frames) = 1
             /\ frames[1].box = ad_image.box
             /\ frames[1].size = ad_image.size

\* a finished call that could not pan although three frames were asked for
C6_Witness ==
  /\ CantPan
  /\ pc = "done"
  /\ num_frames = 3
  /\ Len(frames) = 1
  /\ Len(gif) = 1

\* C7: with a positive pan range the pan has exactly num_frames frames, the
\* k-th of them cut for index k-1, also when flooring gives neighbouring
\* frames the same offset.
C7_OneFramePerIndex ==
  /\ PannedDown =>
       /\ Len(frames) = num_frames
       /\ num_frames >= 2 =>
            \A k \in FrameIdx :
              frames[k].box[2] = (max_top * (k - 1)) \div (num_frames - 1)
  /\ PannedRight =>
       /\ Len(frames) = num_frames
       /\ num_frames >= 2 =>
            \A k \in FrameIdx :
              frames[k].box[1] = (max_left * (k - 1)) \div (num_frames - 1)

\* a finished pan of three frames whose first two frames are the same
C7_Witness ==
  /\ PannedDown
  /\ num_frames = 3
  /\ Len(frames) = 3
  /\ frames[1] = frames[2]
  /\ frames[2] # frames[3]

\* C8 as stated: every finished call, whatever num_frames (0 included), has
\* at least one frame and has written an animation.
C8_Original == pc = "done" => Len(frames) >= 1 /\ gif # <<>>

\* C8 amended: every finished call with num_frames >= 1 has at least one
\* frame and has written an animation of all its frames; with num_frames = 0
\* so does every call that cannot pan.
C8_NonEmptyFromOneFrame ==
  pc = "done" /\ (num_frames >= 1 \/ CantPan) =>
    /\ Len(frames) >= 1
    /\ Len(gif) = 1
    /\ <<gif[1].first>> \o gif[1].append_images = frames

\* a finished one-frame pan over a positive range, written out
C8_Witness ==
  /\ PannedRight
  /\ num_frames = 1
  /\ Len(frames) = 1
  /\ Len(gif) = 1

\* C9: the pan axis follows the ad size alone: a landscape ad (tw > th) moves
\* the top and keeps the left, every other ad (tw = th included) moves the
\* left and keeps the top, whatever the source size.
C9_AxisFromTarget ==
  Len(frames) >= 2 =>
    IF target_width > target_height
      THEN /\ \A k \in FrameIdx : frames[k].box[1] = frames[1].box[1]
           /\ pc = "done" => frames[Len(frames)].box[2] # frames[1].box[2]
      ELSE /\ \A k \in FrameIdx : frames[k].box[2] = frames[1].box[2]
           /\ pc = "done" => frames[Len(frames)].box[1] # frames[1].box[1]

\* a square ad panned left to right over a landscape source
C9_Witness ==
  /\ PannedRight
  /\ target_width = target_height
  /\ img_width > img_height
  /\ Len(frames) >= 2
  /\ frames[Len(frames)].box[1] > 0

\* the 1024 x 1024 master image cut for the medium rectangle (304, 248)
MediumRectangle ==
  /\ image.size = <<MASTER_SIZE, MASTER_SIZE>>
  /\ <<target_width, target_height>> = AD_SIZES[1]
  /\ pc \notin {"static", "pan"}

\* C10 as stated: for source 1024 x 1024 and target (304, 248) the crop
\* window is 1024 x 834 and the pan range max_top is 190.
C10_Original ==
  MediumRectangle => crop_width = 1024 /\ crop_height = 834 /\ max_top = 190

\* C10 amended: for source 1024 x 1024 and target (304, 248) the crop window
\* is 1024 x 835, the pan range max_top is 1024 - 835 = 189, and the pan has
\* num_frames frames running from top 0 to top 189.
C10_MediumRectangle ==
  /\ MediumRectangle => crop_width = 1024 /\ crop_height = 835 /\ max_top = 189
  /\ MediumRectangle /\ pc = "done" =>
       /\ Len(frames) = num_frames
       /\ frames[1].box = <<0, 0, 1024, 835>>
       /\ frames[Len(frames)].box = <<0, 189, 1024, 1024>>

\* the finished 40-frame pan of the medium rectangle
C10_Witness ==
  /\ MediumRectangle
  /\ pc = "done"
  /\ Len(frames) = GIF_NUM_FRAMES
  /\ Len(gif) = 1

\* the 1024 x 1024 master image cut for the billboard (968, 248)
Billboard ==
  /\ image.size = <<MASTER_SIZE, MASTER_SIZE>>
  /\ <<target_width, target_height>> = AD_SIZES[6]
  /\ pc \notin {"static", "pan"}

\* C11: for source 1024 x 1024 and target (968, 248) the pan slides
\* vertically with a crop window of 1024 x 262 (no shrink step), the pan
\* range max_top is 762, and the finished pan has several frames, the first
\* at top 0 and the last at top 762.
C11_Billboard ==
  /\ Billboard => crop_width = 1024 /\ crop_height = 262 /\ max_top = 762
  /\ Billboard /\ pc = "done" =>
       /\ Len(frames) = num_frames
       /\ Len(frames) >= 2
       /\ frames[1].box = <<0, 0, 1024, 262>>
       /\ frames[Len(frames)].box = <<0, 762, 1024, 1024>>
       /\ \A k \in FrameIdx : frames[k].box[1] = 0 /\ frames[k].box[3] = 1024

\* the finished 40-frame pan of the billboard, written out
C11_Witness ==
  /\ Billboard
  /\ pc = "done"
  /\ Len(frames) = GIF_NUM_FRAMES
  /\ frames[GIF_NUM_FRAMES].box[2] = 762
  /\ Len(gif) = 1

\* the crop box of the static crop as the exact ratios give it
ReferenceBox ==
  LET W == img_width
      H == img_height
      nw == (H * target_width) \div target_height
      nh == (W * target_height) \div target_width
  IN IF W * target_height > H * target_width
       THEN <<(W - nw) \div 2, 0, (W - nw) \div 2 + nw, H>>
     ELSE IF W * target_height < H * target_width
       THEN <<0, (H - nh) \div 2, W, (H - nh) \div 2 + nh>>
     ELSE <<0, 0, W, H>>

\* the margins left and right (or above and below) differ by at most 1
Centred(box) ==
  /\ (img_width - box[3]) - box[1] \in {0, 1}
  /\ (img_height - box[4]) - box[2] \in {0, 1}

\* C19 as stated: the crop box of crop_and_resize_to_ad_size is the reference
\* box built from floor(H*tw/th) or floor(W*th/tw), centred to within one
\* pixel.
C19_Original ==
  pc # "static" => ad_image.box = ReferenceBox /\ Centred(ad_image.box)

\* the crop window of the pan as the exact ratios give it
ReferenceWindow ==
  LET W == img_width
      H == img_height
      byWidth == <<W, (W * target_height) \div target_width>>
      byHeight == <<(H * target_width) \div target_height, H>>
  IN IF target_width > target_height
       THEN (IF byWidth[2] > H THEN byHeight ELSE byWidth)
       ELSE (IF byHeight[1] > W THEN byWidth ELSE byHeight)

\* C20 as stated: the crop window of create_panning_gif is the reference
\* window, and the pan range is the source extent minus the window extent
\* along the pan axis and is never negative.
C20_Original ==
  pc \notin {"static", "pan"} =>
    /\ <<crop_width, crop_height>> = ReferenceWindow
    /\ IF target_width > target_height
         THEN max_top = img_height - crop_height /\ max_top >= 0
         ELSE max_left = img_width - crop_width /\ max_left >= 0

\* C12 as stated: a call with a target side <= 0 or an empty source ends in
\* an error, yields no frame and no file, and is rejected before any crop
\* window, offset or resize is computed.
C12_Original ==
  /\ pc \in {"static", "pan", "ZeroDivisionError", "ValueError"}
  /\ crop_width = 0 /\ crop_height = 0 /\ max_top = 0 /\ max_left = 0
  /\ ad_image = NoImage /\ frames = <<>> /\ gif = <<>>

C14_OnlyDeleteRemovesCurrent ==
  [][base_images' # base_images =>
       /\ last_key' = "delete"
       /\ current_index < Len(image_paths)
       /\ shown = image_paths[current_index + 1]
       /\ base_images' = base_images \ {image_paths[current_index + 1]}]_vars

\* a delete has just removed a file, while a file that failed to load and
\* was passed is still on the disk
C14_Witness ==
  /\ last_key = "delete"
  /\ \E p \in checked_images : p \notin base_images
  /\ \E q \in checked_images \cap broken : q \in base_images

C16_FailedDeleteChangesNothing ==
  [][last_key' = "delete_failed" =>
       /\ current_index' = current_index
       /\ checked_images' = checked_images
       /\ json_file' = json_file
       /\ image_paths' = image_paths
       /\ base_images' = base_images
       /\ shown' = shown
       /\ app' = "mainloop"
       /\ current_index' < Len(image_paths')
       /\ shown' = image_paths'[current_index' + 1]]_vars

\* the delete failed on an image that is on the disk and not checked
C16_Witness ==
  /\ last_key = "delete_failed"
  /\ current_index < Len(image_paths)
  /\ image_paths[current_index + 1] \in base_images \ checked_images
  /\ shown = image_paths[current_index + 1]

\* the name save_image derives its paths from, and its n-th output image
SavedBase == StripTextSuffix(current_original_path.base)

OutputName(n) ==
  [base |-> Append(SavedBase, n), ext |-> current_original_path.ext]

\* C17: OUTPUT_DIR changes only in a save_image, which adds one image and
\* replaces none: the image gets the suffix "_text" when that name is free,
\* otherwise "_text_N" for the least N >= 1 that is free, and the JSON file
\* written in the same save has the same suffix.
C17_NeverOverwrites ==
  [][(clock' # clock \/ output_files' # output_files) =>
       \/ /\ output_files' = output_files
          /\ json_store' = json_store
       \/ \E n \in 0 .. Cardinality(output_files) :
            /\ OutputName(n) \notin output_files
            /\ \A m \in 0 .. n - 1 : OutputName(m) \in output_files
            /\ output_files' = output_files \cup {OutputName(n)}
            /\ \/ json_store' = json_store
               \/ \E j \in json_store' :
                    /\ j.base = Append(SavedBase, n)
                    /\ j.mtime = clock'
                    /\ json_store' \ {j} =
                         json_store \ JsonNamed(json_store, j.base)]_vars

\* photo_text.png was saved as photo_text_1.png, with photo_text_1.json,
\* because the output photo_text.png was there already
C17_Witness ==
  /\ [base |-> <<0>>, ext |-> "png"] \in output_files
  /\ [base |-> <<1>>, ext |-> "png"] \in output_files
  /\ \E j \in json_store : j.base = <<1>> /\ j.original.base = <<0>>

\* C18: a save_image that wrote both files leaves, after its reload,
\* text_items as they were before the save.
C18_Original ==
  [][(clock' # clock /\ json_store' # json_store) =>
       text_items' = text_items]_vars

\* the pan offset of frame k and the pan range, on the axis of this call
Offset(k) ==
  IF target_width > target_height THEN frames[k].box[2] ELSE frames[k].box[1]

MaxOffset == IF target_width > target_height THEN max_top ELSE max_left

\* the frame loop of a pan with a positive range has begun
Panning == pc \in {"loop_top", "loop_left", "save", "done"} /\ MaxOffset > 0

\* C21: with num_frames >= 2 and a positive pan range, frame i (from 0) is
\* cut at floor(max_offset * i / (num_frames - 1)), and two neighbouring
\* frames are floor(max_offset / (num_frames - 1)) or one more apart.
C21_EvenlySpaced ==
  Panning /\ num_frames >= 2 =>
    /\ \A k \in FrameIdx :
         Offset(k) = (MaxOffset * (k - 1)) \div (num_frames - 1)
    /\ \A k \in FrameIdx : k < Len(frames) =>
         Offset(k + 1) - Offset(k) - MaxOffset \div (num_frames - 1) \in {0, 1}
    /\ pc = "done" => Len(frames) = num_frames

\* a finished pan of three frames whose two steps differ by one pixel
C21_Witness ==
  /\ PannedDown
  /\ num_frames = 3
  /\ Len(frames) = 3
  /\ Offset(3) - Offset(2) = Offset(2) - Offset(1) + 1

\* the window the pan would take before any shrinking exceeds the source
\* along the pan axis
ShrinkStep ==
  IF target_width > target_height THEN LandscapeHeight > img_height
  ELSE PortraitWidth > img_width

\* C22: in a pan with a positive range the offset across the pan axis is
\* the same for all frames, is (source extent - window extent) // 2 and is
\* 0, the window spanning the whole source on that axis; and a call that
\* takes the shrink step has pan range 0 and exactly one frame.
C22_PerpendicularOffsetZero ==
  pc \in {"loop_top", "loop_left", "center", "save", "done"} =>
    /\ Panning /\ target_width > target_height =>
         /\ crop_width = img_width
         /\ \A k \in FrameIdx :
              /\ frames[k].box[1] = (img_width - crop_width) \div 2
              /\ frames[k].box[1] = 0
              /\ frames[k].box[3] = img_width
    /\ Panning /\ ~(target_width > target_height) =>
         /\ crop_height = img_height
         /\ \A k \in FrameIdx :
              /\ frames[k].box[2] = (img_height - crop_height) \div 2
              /\ frames[k].box[2] = 0
              /\ frames[k].box[4] = img_height
    /\ ShrinkStep =>
         /\ MaxOffset = 0
         /\ pc \in {"save", "done"} => Len(frames) = 1

\* a call for three frames that took the shrink step and wrote one frame,
\* and whose window was cut down on both axes
C22_Witness ==
  /\ pc = "done"
  /\ ShrinkStep
  /\ num_frames = 3
  /\ Len(gif) = 1
  /\ gif[1].append_images = <<>>
  /\ crop_width < img_width
  /\ target_width > target_height

\* the pan window put at pan offset k
WindowAt(k) ==
  IF target_width > target_height
    THEN <<0, k, crop_width, k + crop_height>>
    ELSE <<k, 0, k + crop_width, crop_height>>

\* C23 as stated: whenever the pan range is positive, the static crop box
\* for the same source and ad size is the pan window at pan offset
\* floor(max_offset / 2), and for an odd num_frames the middle frame of the
\* pan is cut with that box.
C23_Original ==
  Panning =>
    /\ ad_image.box = WindowAt(MaxOffset \div 2)
    /\ pc = "done" /\ num_frames % 2 = 1 =>
         frames[(num_frames + 1) \div 2].box = ad_image.box

\* C24 as stated: with all four sizes at least 1, the crop box of the static
\* image and the crop window of every pan frame are at least one pixel wide
\* and high.
C24_Original ==
  /\ pc # "static" =>
       /\ ad_image.box[3] - ad_image.box[1] >= 1
       /\ ad_image.box[4] - ad_image.box[2] >= 1
  /\ \A k \in FrameIdx :
       /\ frames[k].box[3] - frames[k].box[1] >= 1
       /\ frames[k].box[4] - frames[k].box[2] >= 1

\* a step that shows an image: the start of a run, a keep or a delete
ShowStep == last_key' \in {"start", "keep", "delete"}

\* the index show_current_image is first called with in such a step
FirstShown == IF last_key' = "start" THEN 0 ELSE current_index + 1

\* the paths the step passed because they failed to load
Skipped == {image_paths'[k] : k \in FirstShown + 1 .. current_index'}

\* C25: in the filter every image that fails to load is marked checked,
\* stays on the disk and is passed, one index each; the set is saved (and is
\* in the file when the write succeeds); the pass stops at the first image
\* that loads, which is shown, or at the end of the list with the
\* completion dialog and quit.
C25_LoadFailureSkips ==
  [][ShowStep =>
       LET handled == IF last_key' = "start" THEN {}
                      ELSE {image_paths[current_index + 1]}
           before == IF last_key' = "start" THEN load_checked_images
                     ELSE checked_images
       IN /\ Skipped \subseteq broken
          /\ Skipped \subseteq base_images'
          /\ base_images \ base_images' \subseteq handled
          /\ checked_images' = before \cup handled \cup Skipped
          /\ current_index' = FirstShown + Cardinality(Skipped)
          /\ IF current_index' < Len(image_paths')
             THEN /\ image_paths'[current_index' + 1] \notin broken
                  /\ shown' = image_paths'[current_index' + 1]
                  /\ app' = "mainloop"
             ELSE /\ current_index' = Len(image_paths')
                  /\ last_key' # "start" => app' = "exited"
          /\ Skipped # {} /\ last_save' = "ok" =>
               json_file' = [kind |-> "list", items |-> checked_images']]_vars

\* a run began with two images in a row that failed to load: both are
\* checked, saved and still on the disk, and the third image is shown
C25_Witness ==
  /\ last_key = "start"
  /\ Len(image_paths) = 3
  /\ current_index = 2
  /\ {image_paths[1], image_paths[2]} \subseteq broken \cap checked_images
  /\ {image_paths[1], image_paths[2]} \subseteq base_images
  /\ shown = image_paths[3]
  /\ json_file = [kind |-> "list", items |-> checked_images]

\* C26: in the filter 0 <= current_index <= len(image_paths) and every path
\* below current_index is checked; a keep or delete raises the index by one
\* and every further unit of the rise is one image that failed to load, so
\* the review ends, with the completion dialog and quit, exactly when the
\* index reaches len(image_paths).
C26_IndexCountsChecked ==
  /\ [](app # "off" =>
          /\ current_index \in 0 .. Len(image_paths)
          /\ \A k \in 1 .. current_index : image_paths[k] \in checked_images)
  /\ [][last_key' \in {"keep", "delete"} =>
          /\ image_paths' = image_paths
          /\ current_index' >= current_index + 1
          /\ \A k \in current_index + 2 .. current_index' :
               image_paths[k] \in broken
          /\ current_index' < Len(image_paths) =>
               image_paths[current_index' + 1] \notin broken
          /\ app' = "exited" <=> current_index' = Len(image_paths)]_vars
  /\ [][last_key' = "start" =>
          /\ \A k \in 1 .. current_index' : image_paths'[k] \in broken
          /\ current_index' < Len(image_paths') =>
               image_paths'[current_index' + 1] \notin broken]_vars

\* a review of three images ended by a delete, one of them passed because
\* it failed to load
C26_Witness ==
  /\ app = "exited"
  /\ last_key = "delete"
  /\ Len(image_paths) = 3
  /\ current_index = 3
  /\ \E k \in 1 .. 3 : image_paths[k] \in broken
  /\ \E k \in 1 .. 3 : image_paths[k] \notin base_images

============================================================================
